---- MODULE Spec2Model ----
(***************************************************************************)
(* A model of wsds/datasets.py: the SequentialDataset object, its 14-stage *)
(* lazy pipeline (a chain of Python generators, pulled one output unit at  *)
(* a time), and the helper functions fix_dots, map_expand,                 *)
(* apply_transformations, run_pipeline and set_pipeline_epochs.            *)
(*                                                                         *)
(* Python values are modelled as follows.                                  *)
(*   - None is the empty tuple << >>, a present optional value x is <<x>>. *)
(*   - A dict keeps insertion order: it is a sequence of <<key, value>>    *)
(*     pairs with distinct keys.                                           *)
(*   - A dict key (a Python str) is a sequence of one-character strings,   *)
(*     so that startswith and "." + k are computed, not assumed.           *)
(*   - A generator frame is a record of its local variables; a pull from a *)
(*     generator returns the set of possible outcomes [m, r]: the machine  *)
(*     after the pull and the value yielded, StopIteration or an exception.*)
(***************************************************************************)
EXTENDS Integers, Sequences, FiniteSets, TLC

(***************************************************************************)
(* Bounds of the model.                                                    *)
(***************************************************************************)
MaxShards == 2      \* longest literal shard list drawn in Init
MaxPasses == 2      \* iterators created on one Dataset Object
MaxRepeats == 2     \* largest value of args.repeats
MaxKeys == 2        \* most fields of a record handed to fix_dots

(***************************************************************************)
(* Python values.                                                          *)
(***************************************************************************)
None == << >>
Some(x) == <<x>>
IsNone(x) == Len(x) = 0
Val(x) == x[1]

RemoveAt(s, i) == SubSeq(s, 1, i - 1) \o SubSeq(s, i + 1, Len(s))
Min(x, y) == IF x < y THEN x ELSE y

\* str.startswith
startswith(k, p) == Len(k) >= Len(p) /\ SubSeq(k, 1, Len(p)) = p

\* dict operations, insertion ordered
Keys(d) == [i \in 1..Len(d) |-> d[i][1]]
KeySet(d) == {d[i][1] : i \in 1..Len(d)}
HasKey(d, k) == \E i \in 1..Len(d) : d[i][1] = k
GetItem(d, k) == d[CHOOSE i \in 1..Len(d) : d[i][1] = k][2]
SetItem(d, k, v) ==
    IF HasKey(d, k)
    THEN [i \in 1..Len(d) |-> IF d[i][1] = k THEN <<k, v>> ELSE d[i]]
    ELSE Append(d, <<k, v>>)
IsNotKey(e, k) == e[1] # k
DelItem(d, k) == SelectSeq(d, LAMBDA e : IsNotKey(e, k))
\* dict equality: same key set, same value under every key
SameDict(d1, d2) ==
    /\ KeySet(d1) = KeySet(d2)
    /\ \A k \in KeySet(d1) : GetItem(d1, k) = GetItem(d2, k)

\* the reserved keys
K__key__ == <<"_", "_", "k", "e", "y", "_", "_">>
K__url__ == <<"_", "_", "u", "r", "l", "_", "_">>
K__epoch__ == <<"_", "_", "e", "p", "o", "c", "h", "_", "_">>
K__count__ == <<"_", "_", "c", "o", "u", "n", "t", "_", "_">>
Dot == <<".">>
DunderPrefix == <<"_", "_">>

(***************************************************************************)
(* fix_dots (lines 76-81): for k in list(sample.keys()): keys that start   *)
(* with "__" or "." are skipped, every other key is copied under "." + k   *)
(* and deleted.  The loop runs over a snapshot of the keys.                *)
(***************************************************************************)
RECURSIVE fix_dots_loop(_, _)
fix_dots_loop(sample, ks) ==
    IF ks = << >> THEN sample
    ELSE LET k == Head(ks) IN
         IF startswith(k, DunderPrefix) \/ startswith(k, Dot)
         THEN fix_dots_loop(sample, Tail(ks))
         ELSE fix_dots_loop(
                  DelItem(SetItem(sample, Dot \o k, GetItem(sample, k)), k),
                  Tail(ks))

\* a plausible slip: only the reserved prefix is skipped
RECURSIVE fix_dots_always_loop(_, _)
fix_dots_always_loop(sample, ks) ==
    IF ks = << >> THEN sample
    ELSE LET k == Head(ks) IN
         IF startswith(k, DunderPrefix)
         THEN fix_dots_always_loop(sample, Tail(ks))
         ELSE fix_dots_always_loop(
                  DelItem(SetItem(sample, Dot \o k, GetItem(sample, k)), k),
                  Tail(ks))
fix_dots_always(sample) == fix_dots_always_loop(sample, Keys(sample))

\* a slip: the value is copied under the dotted key and the original is kept
RECURSIVE fix_dots_keeping_loop(_, _)
fix_dots_keeping_loop(sample, ks) ==
    IF ks = << >> THEN sample
    ELSE LET k == Head(ks) IN
         IF startswith(k, DunderPrefix) \/ startswith(k, Dot)
         THEN fix_dots_keeping_loop(sample, Tail(ks))
         ELSE fix_dots_keeping_loop(SetItem(sample, Dot \o k, GetItem(sample, k)),
                                    Tail(ks))
fix_dots_keeping(sample) == fix_dots_keeping_loop(sample, Keys(sample))

fix_dots(sample) == fix_dots_loop(sample, Keys(sample))


(***************************************************************************)
(* The world outside the program: the shard URLs and what the archive      *)
(* reader and the grouping primitive (tariterators) deliver for each.      *)
(* Shard "a" holds two samples, "b" one; the stream of "x" cannot be       *)
(* opened.  The grouping primitive creates each sample as                  *)
(* dict(__key__=..., __url__=...) and then adds one field per member file. *)
(***************************************************************************)
Urls == {"a", "b", "x"}
Openable(url) == url # "x"

Kjpg == <<"j", "p", "g">>
Kcls == <<"c", "l", "s">>
Kdottxt == <<".", "t", "x", "t">>

Content(url) ==
    IF url = "a"
    THEN << << <<K__key__, "a1">>, <<K__url__, "a">>, <<Kjpg, "img1">>, <<Kcls, "0">> >>,
            << <<K__key__, "a2">>, <<K__url__, "a">>, <<Kjpg, "img2">> >> >>
    ELSE IF url = "b"
    THEN << << <<K__key__, "b1">>, <<K__url__, "b">>, <<Kdottxt, "t1">>, <<Kjpg, "img3">> >> >>
    ELSE << >>

(***************************************************************************)
(* Results of pulling from a generator.                                    *)
(***************************************************************************)
Item(v) == [t |-> "item", v |-> v]
StopIteration == [t |-> "stop", v |-> None]
Raise(e) == [t |-> "raise", v |-> e]
Outcome(m, r) == [m |-> m, r |-> r]

(***************************************************************************)
(* Python values returned by user callables: [type, val].                  *)
(***************************************************************************)
PyDict(d) == [type |-> "dict", val |-> d]
PyIterator(s) == [type |-> "Iterator", val |-> s]
PyNone == [type |-> "NoneType", val |-> None]
PyList(s) == [type |-> "list", val |-> s]

Ktag == <<".", "t", "a", "g">>
Kcopy == <<".", "c", "o", "p", "y">>

\* The user's transform callables drawn in Init.  Each takes a sample dict.
\*   tag      returns the sample with a field added            (one record)
\*   dup      returns a generator of two copies of the sample  (lazy sequence)
\*   empty    returns a generator of nothing                   (lazy sequence)
\*   drop     returns None
\*   drop_odd returns None for a sample with odd __count__, the sample otherwise
\*   as_list  returns [sample], a list, which is no Iterator
Call(fn, x) ==
    IF x.type # "dict" THEN Raise("TypeError")
    ELSE IF fn = "tag" THEN Item(PyDict(SetItem(x.val, Ktag, "T")))
    ELSE IF fn = "dup"
         THEN Item(PyIterator(<<SetItem(x.val, Kcopy, "1"), SetItem(x.val, Kcopy, "2")>>))
    ELSE IF fn = "empty" THEN Item(PyIterator(<< >>))
    ELSE IF fn = "drop" THEN Item(PyNone)
    ELSE IF fn = "drop_odd"
         THEN IF GetItem(x.val, K__count__) % 2 = 1 THEN Item(PyNone) ELSE Item(x)
    ELSE Item(PyList(<<x.val>>))

(***************************************************************************)
(* apply_transformations (lines 57-73).  args.transformations is           *)
(* [type, val]: None, a list of callables, one callable, or something else.*)
(***************************************************************************)
RECURSIVE apply_list(_, _)
apply_list(fns, r) ==
    IF fns = << >> \/ r.t = "raise" THEN r
    ELSE apply_list(Tail(fns), Call(Head(fns), r.v))

apply_transformations(transformations, x) ==
    IF transformations.type = "NoneType" THEN Item(x)
    ELSE IF transformations.type = "list" /\ transformations.val = << >> THEN Item(x)
    ELSE IF transformations.type = "callable" THEN Call(transformations.val, x)
    ELSE IF transformations.type = "list" THEN apply_list(transformations.val, Item(x))
    ELSE Raise("ValueError")

(***************************************************************************)
(* DatasetSpec (lines 104-141): the defaults of the options modelled.      *)
(* file_fn, collation_fn and the cache sizes keep their defaults.          *)
(***************************************************************************)
DefaultShardShuffleSize == 10000
default_handler == "reraise"

DatasetSpec ==
    [shards |-> [type |-> "list", val |-> << >>],
     transformations |-> [type |-> "list", val |-> << >>],
     handler |-> default_handler,
     repeats |-> 1,
     force_size |-> None,
     shard_split_fn |-> None,
     shuffle_size |-> -1,
     shard_shuffle_size |-> DefaultShardShuffleSize,
     batch_size |-> None,
     batch_partial |-> TRUE,
     cache_dir |-> None,
     log_shards |-> None,
     log_keys |-> None]


(***************************************************************************)
(* A machine m is what one pull of one iterator reads and writes:          *)
(*   m.self  the fields of the Dataset Object the stages use               *)
(*   m.f     the local variables of the 14 generator frames of one pass    *)
(* Every stage operator below is one pull (next) from that stage's         *)
(* generator and returns the set of its possible outcomes.                 *)
(***************************************************************************)

\* The frames run_pipeline creates (lines 34-38): calling a generator function
\* runs none of its body, so every frame starts at its first line.
FreshFrames ==
    [rep_started |-> FALSE,       \* repeat_shards: has list(source) run
     shards |-> << >>,            \* repeat_shards: shards = list(source)
     rep_i |-> 0,                 \* repeat_shards: i of range(repeats)
     rep_j |-> 0,                 \* repeat_shards: index into shards
     shard_buf |-> << >>,         \* shuffle_shards: the reservoir
     opens |-> << >>,             \* url_opener: the descriptors it was handed
     log_shards_started |-> FALSE,
     cur |-> << >>,               \* grouping: samples left in the open shard
     count |-> 0,                 \* group_by_keys: enumerate index i
     log_keys_started |-> FALSE,
     sample_buf |-> << >>,        \* shuffle_samples: the reservoir
     pending |-> << >>,           \* map_expand: rest of "yield from y"
     taken |-> 0]                 \* limit_size: items islice has passed on

\* a slip: the shard list is walked backwards
iterate_shards_reversed(shardlist) ==
    [i \in 1..Len(shardlist) |->
        [url |-> shardlist[Len(shardlist) + 1 - i], shard_num |-> i - 1]]

\* iterate_shards (lines 245-248): enumerate(self.shardlist)
iterate_shards(shardlist) ==
    [i \in 1..Len(shardlist) |-> [url |-> shardlist[i], shard_num |-> i - 1]]

\* A split function [W, w] keeps the descriptors with shard_num % W = w.
KeptBy(d, fn) == d.shard_num % fn.W = fn.w
CallSplit(fn, source) == SelectSeq(source, LAMBDA d : KeptBy(d, fn))

\* a slip: the split function is not called
split_shards_unsplit(a, source) == source

\* split_shards (lines 250-258)
split_shards(a, source) ==
    IF ~IsNone(a.shard_split_fn)
    THEN CallSplit(Val(a.shard_split_fn), source)
    ELSE source

\* a slip: each shard is repeated in place instead of the list as a whole
repeat_shards_inplace(a, m) ==
    LET shards == IF m.f.rep_started THEN m.f.shards
                  ELSE split_shards(a, iterate_shards(m.self.shardlist))
        m1 == [m EXCEPT !.f.rep_started = TRUE, !.f.shards = shards]
    IN  IF m1.f.rep_j >= Len(shards) \/ a.repeats <= 0
        THEN {Outcome(m1, StopIteration)}
        ELSE {Outcome(
                 IF m1.f.rep_i + 1 >= a.repeats
                 THEN [m1 EXCEPT !.f.rep_i = 0, !.f.rep_j = @ + 1]
                 ELSE [m1 EXCEPT !.f.rep_i = @ + 1],
                 Item(shards[m1.f.rep_j + 1]))}

\* a slip: the materialized partition is stored as the object's shard list
repeat_shards_storing(a, m) ==
    LET shards == IF m.f.rep_started THEN m.f.shards
                  ELSE split_shards(a, iterate_shards(m.self.shardlist))
        m1 == [m EXCEPT !.f.rep_started = TRUE, !.f.shards = shards,
                        !.self.shardlist = [i \in 1..Len(shards) |-> shards[i].url]]
    IN  IF m1.f.rep_i >= a.repeats \/ shards = << >>
        THEN {Outcome(m1, StopIteration)}
        ELSE {Outcome(
                 IF m1.f.rep_j + 1 >= Len(shards)
                 THEN [m1 EXCEPT !.f.rep_i = @ + 1, !.f.rep_j = 0]
                 ELSE [m1 EXCEPT !.f.rep_j = @ + 1],
                 Item(shards[m1.f.rep_j + 1]))}

\* repeat_shards (lines 260-269): shards = list(source) on the first pull, then
\* for i in range(repeats): for shard in shards: yield shard
repeat_shards(a, m) ==
    LET shards == IF m.f.rep_started THEN m.f.shards
                  ELSE split_shards(a, iterate_shards(m.self.shardlist))
        m1 == [m EXCEPT !.f.rep_started = TRUE, !.f.shards = shards]
    IN  IF m1.f.rep_i >= a.repeats \/ shards = << >>
        THEN {Outcome(m1, StopIteration)}
        ELSE {Outcome(
                 IF m1.f.rep_j + 1 >= Len(shards)
                 THEN [m1 EXCEPT !.f.rep_i = @ + 1, !.f.rep_j = 0]
                 ELSE [m1 EXCEPT !.f.rep_j = @ + 1],
                 Item(shards[m1.f.rep_j + 1]))}

\* filters.shuffle, the reservoir of the shard-level shuffle: fill the buffer
\* to bufsize from upstream, then emit any occupant.
Filled == Item(None)
RECURSIVE fill_shard_buf(_, _)
fill_shard_buf(a, m) ==
    IF Len(m.f.shard_buf) >= a.shard_shuffle_size THEN {Outcome(m, Filled)}
    ELSE UNION {
           IF o.r.t = "item"
           THEN fill_shard_buf(a, [o.m EXCEPT !.f.shard_buf = Append(@, o.r.v)])
           ELSE IF o.r.t = "stop" THEN {Outcome(o.m, Filled)}
           ELSE {o}
           : o \in repeat_shards(a, m)}

\* shuffle_shards (lines 271-274): filters.shuffle(bufsize=n, initial=n)(source)
shuffle_shards(a, m) ==
    IF a.shard_shuffle_size <= 0 THEN repeat_shards(a, m)
    ELSE UNION {
           IF o.r.t = "raise" THEN {o}
           ELSE IF o.m.f.shard_buf = << >> THEN {Outcome(o.m, StopIteration)}
           ELSE {Outcome([o.m EXCEPT !.f.shard_buf = RemoveAt(@, i)],
                         Item(o.m.f.shard_buf[i]))
                 : i \in 1..Len(o.m.f.shard_buf)}
           : o \in fill_shard_buf(a, m)}

\* tariterators.url_opener(data, handler): opens the stream of each descriptor;
\* a failure goes to handler, which re-raises or has the shard skipped.
reraise_exception == "reraise"
RECURSIVE url_opener(_, _, _)
url_opener(a, m, handler) ==
    UNION {
      IF o.r.t # "item" THEN {o}
      ELSE LET m1 == [o.m EXCEPT !.f.opens = Append(@, o.r.v)] IN
           IF Openable(o.r.v.url) THEN {Outcome(m1, o.r)}
           ELSE IF handler = "reraise" THEN {Outcome(m1, Raise("IOError"))}
           ELSE url_opener(a, m1, handler)
      : o \in shuffle_shards(a, m)}

\* cache.FileCache.__call__: the Cache Adapter's open, counting accesses and
\* misses; it was constructed with the handler of the configuration.
RECURSIVE cache_call(_, _)
cache_call(a, m) ==
    UNION {
      IF o.r.t # "item" THEN {o}
      ELSE LET c == Val(o.m.self.cache)
               hit == o.r.v.url \in c.files
               c1 == [c EXCEPT !.accesses = @ + 1,
                               !.misses = IF hit THEN @ ELSE @ + 1,
                               !.files = IF Openable(o.r.v.url)
                                         THEN @ \cup {o.r.v.url} ELSE @]
               m1 == [o.m EXCEPT !.f.opens = Append(@, o.r.v), !.self.cache = Some(c1)]
           IN  IF Openable(o.r.v.url) THEN {Outcome(m1, o.r)}
               ELSE IF a.handler = "reraise" THEN {Outcome(m1, Raise("IOError"))}
               ELSE cache_call(a, m1)
      : o \in shuffle_shards(a, m)}

\* open_shards (lines 276-285): url_opener is called without a handler
open_shards(a, m) ==
    IF IsNone(a.cache_dir)
    THEN url_opener(a, m, reraise_exception)
    ELSE cache_call(a, m)


\* open_log (lines 184-193).  dest is None, "-", a path or an open stream;
\* "-" reads sys.stderr, and the module never imports sys.
open_log(dest) ==
    IF IsNone(dest) THEN Item(None)
    ELSE IF Val(dest) = "-" THEN Raise("NameError")
    ELSE Item(Some([dest |-> Val(dest), written |-> << >>, closed |-> FALSE]))

\* log_shards (lines 195-201).  The records it is handed are the descriptors
\* dict(url=..., shard_num=...) with the stream added: they hold no "__url__".
log_shards(a, m) ==
    LET pre == IF ~m.f.log_shards_started /\ IsNone(m.self.log_shards_stream)
               THEN open_log(a.log_shards)
               ELSE Item(m.self.log_shards_stream)
    IN  IF pre.t = "raise" THEN {Outcome(m, pre)}
        ELSE { IF o.r.t # "item" THEN o
               ELSE IF ~IsNone(o.m.self.log_shards_stream)
                    THEN Outcome(o.m, Raise("KeyError"))
                    ELSE o
               : o \in open_shards(a, [m EXCEPT !.f.log_shards_started = TRUE,
                                               !.self.log_shards_stream = pre.v]) }

\* iterate_tar_files, rename_files without file_fn, and tariterators.group_by_keys
\* (lines 287-300): the member files of each opened shard, grouped into samples.
RECURSIVE tariterators_group_by_keys(_, _)
tariterators_group_by_keys(a, m) ==
    IF m.f.cur # << >>
    THEN {Outcome([m EXCEPT !.f.cur = Tail(@)], Item(Head(m.f.cur)))}
    ELSE UNION {
           IF o.r.t # "item" THEN {o}
           ELSE tariterators_group_by_keys(a, [o.m EXCEPT !.f.cur = Content(o.r.v.url)])
           : o \in log_shards(a, m)}

\* a slip: __count__ keeps running from one epoch into the next
group_by_keys_running(a, m) ==
    { IF o.r.t # "item" THEN o
      ELSE Outcome([o.m EXCEPT !.f.count = @ + 1],
                   Item(SetItem(SetItem(fix_dots(o.r.v), K__epoch__, o.m.self.epoch),
                                K__count__, o.m.f.count + o.m.self.epoch)))
      : o \in tariterators_group_by_keys(a, m) }

\* group_by_keys (lines 298-304): fix_dots, then the two stamps
group_by_keys(a, m) ==
    { IF o.r.t # "item" THEN o
      ELSE Outcome([o.m EXCEPT !.f.count = @ + 1],
                   Item(SetItem(SetItem(fix_dots(o.r.v), K__epoch__, o.m.self.epoch),
                                K__count__, o.m.f.count)))
      : o \in tariterators_group_by_keys(a, m) }

\* log_keys (lines 203-209)
log_keys(a, m) ==
    LET pre == IF ~m.f.log_keys_started /\ IsNone(m.self.log_keys_stream)
               THEN open_log(a.log_keys)
               ELSE Item(m.self.log_keys_stream)
    IN  IF pre.t = "raise" THEN {Outcome(m, pre)}
        ELSE { IF o.r.t # "item" \/ IsNone(o.m.self.log_keys_stream) THEN o
               ELSE Outcome([o.m EXCEPT !.self.log_keys_stream =
                                Some([Val(@) EXCEPT !.written =
                                        Append(@, GetItem(o.r.v, K__key__))])],
                            o.r)
               : o \in group_by_keys(a, [m EXCEPT !.f.log_keys_started = TRUE,
                                                 !.self.log_keys_stream = pre.v]) }

\* filters.shuffle, the reservoir of the sample-level shuffle
RECURSIVE fill_sample_buf(_, _)
fill_sample_buf(a, m) ==
    IF Len(m.f.sample_buf) >= a.shuffle_size THEN {Outcome(m, Filled)}
    ELSE UNION {
           IF o.r.t = "item"
           THEN fill_sample_buf(a, [o.m EXCEPT !.f.sample_buf = Append(@, o.r.v)])
           ELSE IF o.r.t = "stop" THEN {Outcome(o.m, Filled)}
           ELSE {o}
           : o \in log_keys(a, m)}

\* shuffle_samples (lines 306-309): filters.shuffle(n)(source)
shuffle_samples(a, m) ==
    IF a.shuffle_size <= 0 THEN log_keys(a, m)
    ELSE UNION {
           IF o.r.t = "raise" THEN {o}
           ELSE IF o.m.f.sample_buf = << >> THEN {Outcome(o.m, StopIteration)}
           ELSE {Outcome([o.m EXCEPT !.f.sample_buf = RemoveAt(@, i)],
                         Item(o.m.f.sample_buf[i]))
                 : i \in 1..Len(o.m.f.sample_buf)}
           : o \in fill_sample_buf(a, m)}

\* transform_sample (lines 311-313)
transform_sample(a, sample) == apply_transformations(a.transformations, PyDict(sample))

RECURSIVE map_expand_dropping(_, _)
map_expand_dropping(a, m) ==
    IF m.f.pending # << >>
    THEN {Outcome([m EXCEPT !.f.pending = Tail(@)], Item(Head(m.f.pending)))}
    ELSE UNION {
           IF o.r.t # "item" THEN {o}
           ELSE LET y == transform_sample(a, o.r.v) IN
                IF y.t = "raise" THEN {Outcome(o.m, y)}
                ELSE IF y.v.type = "Iterator"
                     THEN IF y.v.val = << >> THEN map_expand_dropping(a, o.m)
                          ELSE {Outcome([o.m EXCEPT !.f.pending = Tail(y.v.val)],
                                        Item(Head(y.v.val)))}
                ELSE IF y.v.type \in {"dict", "tuple"} THEN {Outcome(o.m, Item(y.v.val))}
                ELSE IF y.v.type = "NoneType" THEN map_expand_dropping(a, o.m)
                ELSE {Outcome(o.m, Raise("ValueError"))}
           : o \in shuffle_samples(a, m)}

\* map_expand (lines 89-97) over f = transform_sample: an Iterator is yielded
\* from, a dict or tuple is yielded, anything else raises ValueError.
RECURSIVE map_expand(_, _)
map_expand(a, m) ==
    IF m.f.pending # << >>
    THEN {Outcome([m EXCEPT !.f.pending = Tail(@)], Item(Head(m.f.pending)))}
    ELSE UNION {
           IF o.r.t # "item" THEN {o}
           ELSE LET y == transform_sample(a, o.r.v) IN
                IF y.t = "raise" THEN {Outcome(o.m, y)}
                ELSE IF y.v.type = "Iterator"
                     THEN IF y.v.val = << >> THEN map_expand(a, o.m)
                          ELSE {Outcome([o.m EXCEPT !.f.pending = Tail(y.v.val)],
                                        Item(Head(y.v.val)))}
                ELSE IF y.v.type \in {"dict", "tuple"} THEN {Outcome(o.m, Item(y.v.val))}
                ELSE {Outcome(o.m, Raise("ValueError"))}
           : o \in shuffle_samples(a, m)}

\* a slip that follows the docstring of transform_samples: a transform that
\* returns None removes the sample
transform_samples_dropping(a, m) == map_expand_dropping(a, m)

\* transform_samples (lines 315-321)
transform_samples(a, m) == map_expand(a, m)

\* a slip: the count is compared one too late
limit_size_late(a, m) ==
    IF ~IsNone(a.force_size)
    THEN IF m.f.taken > Val(a.force_size) THEN {Outcome(m, StopIteration)}
         ELSE { IF o.r.t = "item" THEN Outcome([o.m EXCEPT !.f.taken = @ + 1], o.r) ELSE o
                : o \in transform_samples(a, m) }
    ELSE transform_samples(a, m)

\* limit_size (lines 323-328): islice(source, force_size) stops after force_size
\* items without pulling another
limit_size(a, m) ==
    IF ~IsNone(a.force_size)
    THEN IF m.f.taken >= Val(a.force_size) THEN {Outcome(m, StopIteration)}
         ELSE { IF o.r.t = "item" THEN Outcome([o.m EXCEPT !.f.taken = @ + 1], o.r) ELSE o
                : o \in transform_samples(a, m) }
    ELSE transform_samples(a, m)

\* filters.batched(batchsize, collation_fn): groups of batchsize consecutive
\* samples; its own default lets the last group be short.  A batch is the list
\* of its samples.
batched_default_partial == TRUE
RECURSIVE batched(_, _, _, _)
batched(a, m, partial, batch) ==
    IF Len(batch) >= Val(a.batch_size) THEN {Outcome(m, Item(batch))}
    ELSE UNION {
           IF o.r.t = "item" THEN batched(a, o.m, partial, Append(batch, o.r.v))
           ELSE IF o.r.t = "raise" THEN {o}
           ELSE IF batch = << >> \/ ~partial THEN {Outcome(o.m, StopIteration)}
           ELSE {Outcome(o.m, Item(batch))}
           : o \in limit_size(a, m)}

\* batch_samples (lines 330-338): args.batch_partial is never read
batch_samples(a, m) ==
    IF IsNone(a.batch_size) THEN limit_size(a, m)
    ELSE batched(a, m, batched_default_partial, << >>)

\* run_pipeline (lines 23-40): every stage is a generator function, so no
\* stage returns None and both assertions pass; the consumer pulls the last.
run_pipeline(a, m) == batch_samples(a, m)


(***************************************************************************)
(* The Dataset Object.                                                     *)
(***************************************************************************)
VARIABLES
    args,               \* self.args, the DatasetSpec of this object
    status,             \* "new" (allocated), "ready" (__init__ returned), "error" (__init__ raised)
    error,              \* the exception __init__ raised, or None
    epoch,              \* self.epoch
    total_size,         \* self.total_size
    shardlist,          \* self.shardlist: None or Some(list of urls)
    cache,              \* self.cache: None or Some(FileCache)
    log_shards_stream,  \* self.log_shards_stream
    log_keys_stream,    \* self.log_keys_stream
    pipeline,           \* self.pipeline: the 14 stage callables
    iters,              \* the iterators made by iter(dataset), by number
    out,                \* what each iterator has yielded to its consumer
    requests,           \* how many iterators the consumer will ask for
    fd,                 \* the record under fix_dots (specification SpecDots)
    closed,             \* what the last call of close did
    checked,            \* what the last call of check_cache_misses did, or None
    asm                 \* the pipeline under run_pipeline (specification SpecAssembly)

vars == <<args, status, error, epoch, total_size, shardlist, cache,
          log_shards_stream, log_keys_stream, pipeline, iters, out, requests, fd,
          closed, checked, asm>>

\* the variables only close, check_cache_misses and the run_pipeline harness write
life == <<closed, checked, asm>>

PassIds == 1..MaxPasses

StageNames ==
    <<"iterate_shards", "split_shards", "repeat_shards", "shuffle_shards",
      "open_shards", "log_shards", "iterate_tar_files", "rename_files",
      "group_by_keys", "log_keys", "shuffle_samples", "transform_samples",
      "limit_size", "batch_samples">>

\* init_pipeline (lines 211-227): each stage is a bound method, an object with
\* neither a set_epoch nor a close attribute.
init_pipeline ==
    [i \in 1..Len(StageNames) |->
        [name |-> StageNames[i], has_set_epoch |-> FALSE, has_close |-> FALSE,
         epoch |-> None]]

\* set_pipeline_epochs (lines 43-54)
set_pipeline_epochs(stages, e) ==
    [i \in 1..Len(stages) |->
        IF stages[i].has_set_epoch THEN [stages[i] EXCEPT !.epoch = Some(e)]
        ELSE stages[i]]

\* read_shardlist (lines 229-243).  For a str the test reads the undefined name
\* "shard"; for a list the list is stored and then asserted non-empty.
read_shardlist(a) ==
    IF a.shards.type = "str"
    THEN [r |-> Raise("NameError"), shardlist |-> None]
    ELSE IF a.shards.type = "list"
         THEN [r |-> IF Len(a.shards.val) > 0 THEN Item(None) ELSE Raise("AssertionError"),
               shardlist |-> Some(a.shards.val)]
    ELSE [r |-> Raise("ValueError"), shardlist |-> None]

NoIter == [pc |-> "none", nth |-> 0, overlapped |-> FALSE, after_close |-> FALSE,
           exc |-> None, f |-> FreshFrames]

\* __init__ (lines 160-182), called with keyword options only.  With cache_dir
\* set, line 176 reads the undefined name "cache_dir".
__init__ ==
    /\ status = "new"
    /\ total_size' = -1
    /\ epoch' = -1
    /\ log_shards_stream' = None
    /\ log_keys_stream' = None
    /\ pipeline' = init_pipeline
    /\ cache' = None
    /\ IF ~IsNone(args.cache_dir)
       THEN /\ status' = "error"
            /\ error' = Some("NameError")
            /\ shardlist' = None
       ELSE LET rs == read_shardlist(args) IN
            /\ shardlist' = rs.shardlist
            /\ status' = IF rs.r.t = "raise" THEN "error" ELSE "ready"
            /\ error' = IF rs.r.t = "raise" THEN Some(rs.r.v) ELSE None
    /\ UNCHANGED <<args, iters, out, requests, fd, life>>

\* iter(dataset): __iter__ (line 358) is a generator function, so the call
\* makes a generator and runs none of its body.
__iter__(p) ==
    /\ status = "ready"
    /\ p <= requests
    /\ iters[p].pc = "none"
    /\ \A q \in PassIds : q < p => iters[q].pc # "none"
    /\ iters' = [iters EXCEPT ![p].pc = "created", ![p].after_close = closed.called]
    /\ UNCHANGED <<args, status, error, epoch, total_size, shardlist, cache,
                   log_shards_stream, log_keys_stream, pipeline, out, requests, fd, life>>

Begun(it) == it.pc \in {"running", "done", "raised"}
NBegun == Cardinality({q \in PassIds : Begun(iters[q])})

\* a slip: the increment of line 360 is left out
epoch_unchanged(first) == epoch

\* self.epoch += 1 (line 360), run by the first pull only
next_epoch(first) == IF first THEN epoch + 1 ELSE epoch

\* next(iterator): the body of __iter__ (lines 360-362) runs to its next yield.
\* The first pull increments self.epoch, calls set_pipeline_epochs and has
\* run_pipeline build the frames; every pull then takes one unit from the
\* last stage.
__next__(p) ==
    /\ status = "ready"
    /\ iters[p].pc \in {"created", "running"}
    /\ LET first == iters[p].pc = "created"
           epoch1 == next_epoch(first)
           m0 == [self |-> [epoch |-> epoch1,
                            shardlist |-> Val(shardlist),
                            cache |-> cache,
                            log_shards_stream |-> log_shards_stream,
                            log_keys_stream |-> log_keys_stream],
                  f |-> IF first THEN FreshFrames ELSE iters[p].f]
       IN  \E o \in run_pipeline(args, m0) :
             /\ epoch' = epoch1
             /\ shardlist' = Some(o.m.self.shardlist)
             /\ pipeline' = IF first THEN set_pipeline_epochs(pipeline, epoch1) ELSE pipeline
             /\ cache' = o.m.self.cache
             /\ log_shards_stream' = o.m.self.log_shards_stream
             /\ log_keys_stream' = o.m.self.log_keys_stream
             /\ iters' = [iters EXCEPT ![p] =
                   [pc |-> IF o.r.t = "item" THEN "running"
                           ELSE IF o.r.t = "stop" THEN "done" ELSE "raised",
                    nth |-> IF first THEN NBegun + 1 ELSE @.nth,
                    overlapped |-> @.overlapped \/
                        (~first /\ \E q \in PassIds : iters[q].nth > @.nth),
                    after_close |-> @.after_close,
                    exc |-> IF o.r.t = "raise" THEN Some(o.r.v) ELSE None,
                    f |-> o.m.f]]
             /\ out' = [out EXCEPT ![p] = IF o.r.t = "item" THEN Append(@, o.r.v) ELSE @]
    /\ UNCHANGED <<args, status, error, total_size, requests, fd, life>>

\* set_size (lines 364-366)
set_size(n) ==
    /\ status = "ready"
    /\ total_size' = n
    /\ UNCHANGED <<args, status, error, epoch, shardlist, cache, log_shards_stream,
                   log_keys_stream, pipeline, iters, out, requests, fd, life>>

\* size (lines 368-375)
size == total_size

\* the names of the stages that have a close attribute, last stage first
RECURSIVE closing(_)
closing(stages) ==
    IF stages = << >> THEN << >>
    ELSE LET last == stages[Len(stages)]
             rest == closing(SubSeq(stages, 1, Len(stages) - 1))
         IN  IF last.has_close THEN <<last.name>> \o rest ELSE rest

\* close (lines 377-384): the stages' close methods, last stage first; then
\* self.cache.clear(), an AttributeError when self.cache is None, and del
\* self.cache.  Nothing records that the object was closed, and the log streams
\* are not touched.
close ==
    /\ status = "ready"
    /\ IF IsNone(cache)
       THEN closed' = [called |-> TRUE, teardown |-> closing(pipeline),
                       exc |-> Some("AttributeError")]
       ELSE closed' = [called |-> TRUE,
                       teardown |-> Append(closing(pipeline), "cache.clear"),
                       exc |-> None]
    /\ cache' = None
    /\ UNCHANGED <<args, status, error, epoch, total_size, shardlist,
                   log_shards_stream, log_keys_stream, pipeline, iters, out,
                   requests, fd, checked, asm>>

\* get_stats (lines 340-344)
get_stats ==
    IF IsNone(cache) THEN <<0, 0>>
    ELSE <<Val(cache).accesses, Val(cache).misses>>

\* misses / accesses and the literal 0.3 (line 351), as exact fractions.  The
\* double nearest to 3/10 is the literal, and the quotient of two counts below
\* 2^50 is rounded to a double beyond it exactly when it exceeds 3/10.
TrueDiv(x, y) == <<x, y>>
ThreeTenths == <<3, 10>>
Greater(q, r) == q[1] * r[2] > r[1] * q[2]

\* the access count the miss rate is looked at above (line 351)
MinAccesses == 100

\* a slip: the miss rate is looked at from MinAccesses accesses on
check_from_min(accesses, misses) ==
    accesses >= MinAccesses /\ Greater(TrueDiv(misses, accesses), ThreeTenths)

\* the condition of line 351; "and" does not divide when accesses is 0
too_many_misses(accesses, misses) ==
    accesses > MinAccesses /\ Greater(TrueDiv(misses, accesses), ThreeTenths)

\* check_cache_misses (lines 346-356)
check_cache_misses ==
    /\ status = "ready"
    /\ checked' = Some([warned |-> IF IsNone(cache) THEN FALSE
                                   ELSE too_many_misses(get_stats[1], get_stats[2]),
                        exc |-> None])
    /\ UNCHANGED <<args, status, error, epoch, total_size, shardlist, cache,
                   log_shards_stream, log_keys_stream, pipeline, iters, out,
                   requests, fd, closed, asm>>

(***************************************************************************)
(* The configurations drawn in Init.                                       *)
(***************************************************************************)
ListOf(urls) == [type |-> "list", val |-> urls]
ShardLists == UNION {[1..n -> Urls] : n \in 1..MaxShards}
GoodLists == UNION {[1..n -> {"a", "b"}] : n \in 1..MaxShards}
Handlers == {"reraise", "swallow"}
SplitFns == {None} \cup {Some([W |-> 2, w |-> k]) : k \in 0..1}
Callables == {"tag", "dup", "empty", "drop", "drop_odd", "as_list"}
Transformations ==
    {[type |-> "NoneType", val |-> None], [type |-> "int", val |-> None],
     [type |-> "list", val |-> << >>], [type |-> "list", val |-> <<"tag">>],
     [type |-> "list", val |-> <<"tag", "dup">>]}
    \cup {[type |-> "callable", val |-> c] : c \in Callables}

Unshuffled == [DatasetSpec EXCEPT !.shard_shuffle_size = -1]

\* shard order, splitting and repeating
OrderConfigs ==
    {[Unshuffled EXCEPT !.shards = ListOf(l), !.repeats = k, !.shard_split_fn = fn]
     : l \in ShardLists, k \in 1..MaxRepeats, fn \in SplitFns}
\* faulty shards and the two handlers
FaultConfigs ==
    {[Unshuffled EXCEPT !.shards = ListOf(l), !.handler = h]
     : l \in ShardLists, h \in Handlers}
\* the two shuffles
ShuffleConfigs ==
    {[DatasetSpec EXCEPT !.shards = ListOf(l), !.repeats = k, !.shard_shuffle_size = n,
                         !.shard_split_fn = fn]
     : l \in {<<"b", "a">>, <<"b", "x">>}, k \in {1, MaxRepeats},
       n \in {2, DefaultShardShuffleSize}, fn \in SplitFns}
    \cup
    {[Unshuffled EXCEPT !.shards = ListOf(l), !.shuffle_size = s]
     : l \in {<<"b", "a">>, <<"a", "x">>}, s \in {2}}
\* transforms and truncation
TransformConfigs ==
    {[Unshuffled EXCEPT !.shards = ListOf(l), !.transformations = t, !.force_size = n]
     : l \in GoodLists, t \in Transformations,
       n \in {None} \cup {Some(k) : k \in {0, 1, 3}}}
\* batching
BatchConfigs ==
    {[Unshuffled EXCEPT !.shards = ListOf(l), !.batch_size = Some(b),
                        !.batch_partial = bp, !.force_size = n, !.transformations = t]
     : l \in GoodLists \cup {<<"a", "x">>}, b \in 1..3, bp \in BOOLEAN,
       n \in {None, Some(3)},
       t \in {[type |-> "list", val |-> << >>], [type |-> "callable", val |-> "dup"]}}
\* shard sources that are no non-empty list, and a cache directory
SourceConfigs ==
    {[Unshuffled EXCEPT !.shards = src, !.cache_dir = cd]
     : src \in {ListOf(<< >>), ListOf(<<"a">>),
                [type |-> "str", val |-> "shard-{0..1}.tar"],
                [type |-> "str", val |-> "shards.json"],
                [type |-> "NoneType", val |-> None]},
       cd \in {None, Some("/cache")}}

Configs == OrderConfigs \cup FaultConfigs \cup ShuffleConfigs \cup TransformConfigs
           \cup BatchConfigs \cup SourceConfigs

\* the shard lists iterated more than once
EpochLists == {<<"a">>, <<"x">>, <<"a", "b">>, <<"b", "a">>, <<"a", "x">>}

\* the configurations iterated more than once
EpochConfigs ==
    {[Unshuffled EXCEPT !.shards = ListOf(l), !.transformations = t,
                        !.force_size = n, !.batch_size = b]
     : l \in EpochLists,
       t \in {[type |-> "list", val |-> << >>], [type |-> "callable", val |-> "drop_odd"]},
       n \in {None, Some(1)}, b \in {None, Some(2)}}
    \cup
    {[DatasetSpec EXCEPT !.shards = ListOf(<<"b", "a">>)],
     [Unshuffled EXCEPT !.shards = ListOf(<<"a">>), !.shuffle_size = 2]}

NoRecord == [in |-> << >>, once |-> << >>, out |-> << >>, n |-> 0]

\* close has not been called
NotClosed == [called |-> FALSE, teardown |-> << >>, exc |-> None]

\* no pipeline has been handed to run_pipeline
NoAssembly == [stages |-> << >>, debug |-> TRUE, runs |-> << >>]

\* The object is allocated and its options are fixed; __init__ has not run, and
\* the attributes it will set hold placeholders.
Init ==
    /\ \/ args \in Configs /\ requests = 1
       \/ args \in EpochConfigs /\ requests = MaxPasses
    /\ status = "new"
    /\ error = None
    /\ epoch = 0
    /\ total_size = 0
    /\ shardlist = None
    /\ cache = None
    /\ log_shards_stream = None
    /\ log_keys_stream = None
    /\ pipeline = << >>
    /\ iters = [p \in PassIds |-> NoIter]
    /\ out = [p \in PassIds |-> << >>]
    /\ fd = NoRecord
    /\ closed = NotClosed
    /\ checked = None
    /\ asm = NoAssembly

Next ==
    \/ __init__
    \/ \E p \in PassIds : __iter__(p)
    \/ \E p \in PassIds : __next__(p)

Spec == Init /\ [][Next]_vars

(***************************************************************************)
(* The whole life of an object: as Spec, with close, set_size and          *)
(* check_cache_misses called at any time, over fewer configurations.       *)
(***************************************************************************)
Sizes == {0, 3}

LifeConfigs ==
    {[Unshuffled EXCEPT !.shards = ListOf(l), !.repeats = k, !.shard_split_fn = fn]
     : l \in {<<"a">>, <<"b", "a">>}, k \in {1, MaxRepeats},
       fn \in {None, Some([W |-> 2, w |-> 0])}}
    \cup
    {[DatasetSpec EXCEPT !.shards = ListOf(<<"b", "a">>)],
     [Unshuffled EXCEPT !.shards = ListOf(<<"a">>), !.shuffle_size = 2],
     [Unshuffled EXCEPT !.shards = ListOf(<<"a">>), !.log_keys = Some("keys.log")],
     [Unshuffled EXCEPT !.shards = ListOf(<<"a">>), !.log_shards = Some("shards.log")],
     [Unshuffled EXCEPT !.shards = ListOf(<<"a">>), !.log_keys = Some("-")]}

InitLife ==
    /\ args \in LifeConfigs
    /\ requests = 2
    /\ status = "new"
    /\ error = None
    /\ epoch = 0
    /\ total_size = 0
    /\ shardlist = None
    /\ cache = None
    /\ log_shards_stream = None
    /\ log_keys_stream = None
    /\ pipeline = << >>
    /\ iters = [p \in PassIds |-> NoIter]
    /\ out = [p \in PassIds |-> << >>]
    /\ fd = NoRecord
    /\ closed = NotClosed
    /\ checked = None
    /\ asm = NoAssembly

NextLife ==
    \/ __init__
    \/ \E p \in PassIds : __iter__(p)
    \/ \E p \in PassIds : __next__(p)
    \/ \E n \in Sizes : set_size(n)
    \/ close
    \/ check_cache_misses

SpecLife == InitLife /\ [][NextLife]_vars

(***************************************************************************)
(* check_cache_misses on its own: a constructed object whose cache         *)
(* attribute is None or a FileCache that has counted some accesses.  Only  *)
(* the first can come out of __init__ as it is; the second is what the     *)
(* attribute holds once a FileCache is put there.                          *)
(***************************************************************************)
MaxAccesses == 110          \* the largest access count drawn

Caches ==
    {None} \cup {Some([accesses |-> a, misses |-> m, files |-> {}])
                 : a \in 0..MaxAccesses, m \in 0..MaxAccesses}

InitStats ==
    /\ cache \in {c \in Caches : IsNone(c) \/ Val(c).misses <= Val(c).accesses}
    /\ args = [Unshuffled EXCEPT !.shards = ListOf(<<"a">>),
                                 !.cache_dir = IF IsNone(cache) THEN None
                                               ELSE Some("/cache")]
    /\ status = "ready"
    /\ error = None
    /\ epoch = -1
    /\ total_size = -1
    /\ shardlist = Some(<<"a">>)
    /\ log_shards_stream = None
    /\ log_keys_stream = None
    /\ pipeline = init_pipeline
    /\ iters = [p \in PassIds |-> NoIter]
    /\ out = [p \in PassIds |-> << >>]
    /\ requests = 0
    /\ fd = NoRecord
    /\ closed = NotClosed
    /\ checked = None
    /\ asm = NoAssembly

NextStats == check_cache_misses

SpecStats == InitStats /\ [][NextStats]_vars

(***************************************************************************)
(* run_pipeline on its own, over any list of stages.  A stage is "ok", a   *)
(* callable that returns a lazy sequence over its source, or "null", one   *)
(* that returns None.  assert statements run unless the interpreter was    *)
(* started with -O (debug false).                                          *)
(***************************************************************************)
MaxStages == 5              \* the longest pipeline drawn

\* what source is bound to: a sequence, None, or a lazy sequence over None,
\* which raises TypeError when it is first pulled
SourceOf(stage, source) ==
    IF stage = "null" THEN "null"
    ELSE IF source = "seq" THEN "seq"
    ELSE "broken"

\* the result of one run: the exception that ended it, the stage its message
\* names, and how many samples were yielded before
Ran(exc, named, yielded) == [exc |-> exc, named |-> named, yielded |-> yielded]

\* for filter in pipeline[1:] (lines 35-38), from stage i on, and the final
\* loop over source (lines 39-40); a sound pipeline yields its one sample
RECURSIVE assemble(_, _, _, _)
assemble(stages, i, source, debug) ==
    IF i > Len(stages)
    THEN IF source = "seq" THEN Ran(None, None, 1)
         ELSE Ran(Some("TypeError"), None, 0)
    ELSE IF debug /\ source = "null"
         THEN Ran(Some("AssertionError"), None, 0)
    ELSE LET next == SourceOf(stages[i], source) IN
         IF debug /\ next = "null"
         THEN Ran(Some("AssertionError"), Some(i), 0)
         ELSE assemble(stages, i + 1, next, debug)

\* run_pipeline (lines 23-40) as a function of the list of stages, run to its
\* end by the consumer
run_pipeline_of(stages, debug) ==
    assemble(stages, 2, SourceOf(stages[1], "seq"), debug)

Pipelines == UNION {[1..n -> {"ok", "null"}] : n \in 1..MaxStages}

InitAssembly ==
    /\ args = DatasetSpec
    /\ status = "new"
    /\ error = None
    /\ epoch = 0
    /\ total_size = 0
    /\ shardlist = None
    /\ cache = None
    /\ log_shards_stream = None
    /\ log_keys_stream = None
    /\ pipeline = << >>
    /\ iters = [p \in PassIds |-> NoIter]
    /\ out = [p \in PassIds |-> << >>]
    /\ requests = 0
    /\ fd = NoRecord
    /\ closed = NotClosed
    /\ checked = None
    /\ \E st \in Pipelines, d \in BOOLEAN :
          asm = [stages |-> st, debug |-> d, runs |-> << >>]

\* one more run of the same list of stages
RunPipeline ==
    /\ Len(asm.runs) < MaxPasses
    /\ asm' = [asm EXCEPT !.runs = Append(@, run_pipeline_of(asm.stages, asm.debug))]
    /\ UNCHANGED <<args, status, error, epoch, total_size, shardlist, cache,
                   log_shards_stream, log_keys_stream, pipeline, iters, out,
                   requests, fd, closed, checked>>

NextAssembly == RunPipeline

SpecAssembly == InitAssembly /\ [][NextAssembly]_vars

(***************************************************************************)
(* fix_dots on its own: a record is drawn, and fix_dots is applied to it   *)
(* twice.                                                                  *)
(***************************************************************************)
DotKeys == {<<"x">>, <<".", "x">>, <<".", ".", "x">>, <<"_", "x">>, <<"_", "_", "x">>, << >>}
DotValues == {"u", "v"}
DotRecords ==
    {d \in UNION {[1..n -> DotKeys \X DotValues] : n \in 0..MaxKeys} :
        \A i, j \in 1..Len(d) : i # j => d[i][1] # d[j][1]}

InitDots ==
    /\ args = DatasetSpec
    /\ status = "new"
    /\ error = None
    /\ epoch = 0
    /\ total_size = 0
    /\ shardlist = None
    /\ cache = None
    /\ log_shards_stream = None
    /\ log_keys_stream = None
    /\ pipeline = << >>
    /\ iters = [p \in PassIds |-> NoIter]
    /\ out = [p \in PassIds |-> << >>]
    /\ requests = 0
    /\ closed = NotClosed
    /\ checked = None
    /\ asm = NoAssembly
    /\ \E d \in DotRecords : fd = [in |-> d, once |-> d, out |-> d, n |-> 0]

ApplyFixDots ==
    /\ fd.n < 2
    /\ fd' = [in |-> fd.in,
              once |-> IF fd.n = 0 THEN fix_dots(fd.out) ELSE fd.once,
              out |-> fix_dots(fd.out),
              n |-> fd.n + 1]
    /\ UNCHANGED <<args, status, error, epoch, total_size, shardlist, cache,
                   log_shards_stream, log_keys_stream, pipeline, iters, out, requests, life>>

NextDots == ApplyFixDots

SpecDots == InitDots /\ [][NextDots]_vars

(***************************************************************************)
(* Reference runs.  With both shuffles disabled every pull has one outcome, *)
(* and a stage can be run alone from fresh frames to its end.               *)
(***************************************************************************)
Deterministic(a) == a.shard_shuffle_size <= 0 /\ a.shuffle_size <= 0

Pull(stage, a, m) ==
    IF stage = "log_keys" THEN log_keys(a, m)
    ELSE IF stage = "transform_samples" THEN transform_samples(a, m)
    ELSE limit_size(a, m)

RECURSIVE Drain(_, _, _, _)
Drain(stage, a, m, acc) ==
    LET o == CHOOSE o \in Pull(stage, a, m) : TRUE IN
    IF o.r.t = "item" THEN Drain(stage, a, o.m, Append(acc, o.r.v))
    ELSE [out |-> acc, end |-> o.r]

\* the whole output of `stage`, run alone over this object's shard list
Reference(stage) ==
    Drain(stage, args,
          [self |-> [epoch |-> 0, shardlist |-> Val(shardlist), cache |-> cache,
                     log_shards_stream |-> None, log_keys_stream |-> None],
           f |-> FreshFrames],
          << >>)

IsPrefix(s, t) == Len(s) <= Len(t) /\ s = SubSeq(t, 1, Len(s))

RECURSIVE Flatten(_)
Flatten(ss) == IF ss = << >> THEN << >> ELSE Head(ss) \o Flatten(Tail(ss))

\* the samples an iterator has yielded, batches taken apart
Samples(p) == IF IsNone(args.batch_size) THEN out[p] ELSE Flatten(out[p])

\* a sequence of samples without their __epoch__ stamps
NoEpoch(ss) == [i \in 1..Len(ss) |-> DelItem(ss[i], K__epoch__)]

Finished(p) == iters[p].pc \in {"done", "raised"}


(***************************************************************************)
(* Claims.                                                                 *)
(***************************************************************************)

\* the options of the plain scenario: no shuffle, no split function, no
\* transforms, no batching, no truncation, repeats = 1
Plain(a) ==
    /\ Deterministic(a)
    /\ IsNone(a.shard_split_fn)
    /\ a.transformations.type \in {"NoneType", "list"}
    /\ a.transformations.val = << >>
    /\ IsNone(a.batch_size)
    /\ IsNone(a.force_size)
    /\ a.repeats = 1

AllOpenable(l) == \A i \in 1..Len(l) : Openable(l[i])

\* the <<url, key>> of every sample of the shards of l, shard by shard
RECURSIVE SampleIds(_)
SampleIds(l) ==
    IF l = << >> THEN << >>
    ELSE [i \in 1..Len(Content(Head(l))) |->
             <<Head(l), GetItem(Content(Head(l))[i], K__key__)>>]
         \o SampleIds(Tail(l))

IdOf(sample) == <<GetItem(sample, K__url__), GetItem(sample, K__key__)>>

\* C1: in the plain scenario, over a list of shards that can all be opened, the
\* first iteration (run with no other iteration of the object started meanwhile)
\* yields the samples of shard 0 in file order, then those of shard 1, and so
\* on; each carries __epoch__ = 0, and __count__ is 0, 1, 2, ... in output
\* order; the iteration ends normally exactly after the last sample.
C1_PlainOrder ==
    \A p \in PassIds :
      (/\ status = "ready"
       /\ Plain(args)
       /\ AllOpenable(args.shards.val)
       /\ iters[p].nth = 1
       /\ ~iters[p].overlapped)
      => LET ids == SampleIds(args.shards.val) IN
         /\ Len(out[p]) <= Len(ids)
         /\ \A i \in 1..Len(out[p]) :
              /\ IdOf(out[p][i]) = ids[i]
              /\ GetItem(out[p][i], K__epoch__) = 0
              /\ GetItem(out[p][i], K__count__) = i - 1
         /\ iters[p].pc # "raised"
         /\ iters[p].pc = "done" => Len(out[p]) = Len(ids)

\* C1 witness: a first iteration over two shards has ended after three samples
C1_Witness ==
    \E p \in PassIds :
      /\ status = "ready" /\ Plain(args)
      /\ args.shards.val = <<"a", "b">>
      /\ iters[p].nth = 1 /\ ~iters[p].overlapped
      /\ iters[p].pc = "done"
      /\ Len(out[p]) = 3

\* C9: fix_dots is idempotent: applied twice to a record, it leaves the same
\* keys with the same values as applied once.
C9_FixDotsIdempotent ==
    fd.n = 2 => SameDict(fd.out, fd.once)

\* C9 witness: fix_dots has been applied twice to a record holding both "x"
\* and ".x"
C9_Witness ==
    /\ fd.n = 2
    /\ HasKey(fd.in, <<"x">>)
    /\ HasKey(fd.in, <<".", "x">>)


\* C2, the state part: once __init__ has run the counter is the number of
\* iterations begun so far, less one (so -1 after construction); a stage with
\* an epoch-setter has been given the counter's value, a stage without one is
\* untouched; and every sample of the n-th iteration, run with no later
\* iteration started meanwhile, carries __epoch__ = n - 1.
C2_State ==
    /\ status \in {"ready", "error"} => epoch = NBegun - 1
    /\ status = "ready" =>
         \A i \in 1..Len(pipeline) :
            IF pipeline[i].has_set_epoch
            THEN NBegun > 0 => pipeline[i].epoch = Some(epoch)
            ELSE pipeline[i] = init_pipeline[i]
    /\ \A p \in PassIds :
         (Begun(iters[p]) /\ ~iters[p].overlapped)
         => \A i \in 1..Len(Samples(p)) :
               GetItem(Samples(p)[i], K__epoch__) = iters[p].nth - 1

\* C2, the step part: after construction the counter changes exactly in the
\* step in which an iterator runs the first lines of __iter__, and then by +1.
C2_Step ==
    status = "ready" =>
      /\ epoch' \in {epoch, epoch + 1}
      /\ epoch' # epoch <=>
           \E p \in PassIds : iters[p].pc = "created" /\ Begun(iters'[p])

\* C2: the epoch counter is -1 after construction, is incremented by one by
\* each iteration before any of its stages runs, changes at no other time and
\* never decreases; the stages' epoch-setters are called with it; the samples
\* of the n-th sequential iteration carry __epoch__ = n - 1.
C2_EpochCounter == [](C2_State) /\ [][C2_Step]_vars

\* C2 witness: a second iteration, begun after the first one ended, has
\* yielded a sample, and the counter is 1
C2_Witness ==
    \E p, q \in PassIds :
      /\ iters[q].nth = 1 /\ iters[q].pc = "done" /\ Len(out[q]) > 0
      /\ iters[p].nth = 2 /\ ~iters[p].overlapped /\ ~iters[q].overlapped
      /\ Len(out[p]) > 0
      /\ epoch = 1

\* C3: with no shuffle, no cache and repeats = 1, any two iterations of the
\* object yield the same samples in the same order with the same content
\* (__count__ included) up to __epoch__: of two iterations the shorter output
\* is the beginning of the longer, and two iterations that have ended yielded
\* the same and ended the same way.  This covers an iteration begun while an
\* earlier one is left partly consumed.
C3_SameEveryEpoch ==
    \A p, q \in PassIds :
      (/\ status = "ready"
       /\ Deterministic(args) /\ IsNone(args.cache_dir) /\ args.repeats = 1
       /\ Begun(iters[p]) /\ Begun(iters[q])
       /\ Len(Samples(p)) <= Len(Samples(q)))
      => /\ IsPrefix(NoEpoch(Samples(p)), NoEpoch(Samples(q)))
         /\ Len(out[p]) <= Len(out[q])
         /\ (Finished(p) /\ Finished(q))
            => /\ Len(out[p]) = Len(out[q])
               /\ iters[p].pc = iters[q].pc
               /\ iters[p].exc = iters[q].exc

\* C3 witness: the first iteration was left after one sample, and a second
\* iteration has run to its end and yielded three
C3_Witness ==
    \E p, q \in PassIds :
      /\ Deterministic(args) /\ args.repeats = 1
      /\ iters[p].nth = 1 /\ iters[p].pc = "running" /\ Len(Samples(p)) = 1
      /\ iters[q].nth = 2 /\ iters[q].pc = "done" /\ Len(Samples(q)) = 3


\* this worker's partition: the descriptors left by the split function
Partition == split_shards(args, iterate_shards(Val(shardlist)))

\* k passes over s, one after the other
RepeatSeq(s, k) == [i \in 1..(k * Len(s)) |-> s[((i - 1) % Len(s)) + 1]]

Count(s, x) == Cardinality({i \in 1..Len(s) : s[i] = x})

\* C4 as claimed: the shards a completed, untruncated iteration opened are k
\* passes over the partition, each pass in full before the next and each in
\* the same order of the shards.
C4_OpenedInPasses ==
    \A p \in PassIds :
      (/\ status = "ready"
       /\ iters[p].pc = "done"
       /\ IsNone(args.force_size)
       /\ args.repeats >= 1)
      => LET o == iters[p].f.opens
             L == Len(Partition)
         IN  /\ Len(o) = args.repeats * L
             /\ \A d \in {Partition[i] : i \in 1..L} :
                   Count(SubSeq(o, 1, L), d) = Count(Partition, d)
             /\ \A i \in 1..(Len(o) - L) : o[i + L] = o[i]

\* C4, amended: over a completed, untruncated iteration every shard of the
\* partition is opened exactly k times, k times the partition in all; with the
\* shard-level shuffle disabled the shards are opened as k passes over the
\* partition, each in partition order and in full before the next.
C4_RepeatedPartition ==
    \A p \in PassIds :
      (status = "ready" /\ Begun(iters[p]) /\ args.repeats >= 1)
      => LET o == iters[p].f.opens
             L == Len(Partition)
         IN  /\ args.shard_shuffle_size <= 0
                => IsPrefix(o, RepeatSeq(Partition, args.repeats))
             /\ (iters[p].pc = "done" /\ IsNone(args.force_size))
                => /\ Len(o) = args.repeats * L
                   /\ \A d \in {Partition[i] : i \in 1..L} :
                         Count(o, d) = args.repeats * Count(Partition, d)

\* C4 witness: two shards, repeats = 2, no shuffle: four shards were opened
C4_Witness ==
    \E p \in PassIds :
      /\ status = "ready"
      /\ args.repeats = 2 /\ args.shard_shuffle_size <= 0
      /\ IsNone(args.shard_split_fn)
      /\ args.shards.val = <<"b", "a">>
      /\ iters[p].pc = "done"
      /\ Len(iters[p].f.opens) = 4

\* C5: without batching and with both shuffles disabled, the samples an
\* iteration yields are the first samples, in order, of what the transform
\* stage delivers; with force_size = N the iteration yields at most N and, once
\* ended, exactly min(N, M) of its M; with force_size unset it yields all M.
C5_Truncation ==
    \A p \in PassIds :
      (/\ status = "ready"
       /\ Deterministic(args) /\ IsNone(args.batch_size)
       /\ Begun(iters[p]))
      => LET all == NoEpoch(Reference("transform_samples").out)
             got == NoEpoch(out[p])
         IN  /\ IsPrefix(got, all)
             /\ ~IsNone(args.force_size)
                => /\ Len(got) <= Val(args.force_size)
                   /\ Finished(p) => Len(got) = Min(Val(args.force_size), Len(all))
             /\ (IsNone(args.force_size) /\ Finished(p)) => got = all

\* C5 witness: force_size = 1 over a sequence of more than one sample; the
\* iteration has ended with one sample yielded
C5_Witness ==
    \E p \in PassIds :
      /\ status = "ready"
      /\ Deterministic(args) /\ IsNone(args.batch_size)
      /\ args.force_size = Some(1)
      /\ iters[p].pc = "done"
      /\ Len(out[p]) = 1
      /\ Len(Reference("transform_samples").out) > 1

\* C6 as claimed: with batch_size = B and M samples reaching the batching
\* stage, a completed iteration has yielded floor(M/B) batches of B samples
\* when batch_partial is false, and ceil(M/B) batches, the last of M mod B
\* samples (B when B divides M), when batch_partial is true.
C6_Batching ==
    \A p \in PassIds :
      (/\ status = "ready"
       /\ Deterministic(args) /\ ~IsNone(args.batch_size)
       /\ iters[p].pc = "done")
      => LET M == Len(Reference("limit_size").out)
             B == Val(args.batch_size)
             n == Len(out[p])
         IN  IF args.batch_partial
             THEN /\ n = (M + B - 1) \div B
                  /\ n > 0 => Len(out[p][n]) = IF M % B = 0 THEN B ELSE M % B
             ELSE /\ n = M \div B
                  /\ \A i \in 1..n : Len(out[p][i]) = B

\* the place of the one shard of l that cannot be opened
FaultAt(l) == CHOOSE i \in 1..Len(l) : ~Openable(l[i])

\* C7 as claimed: in the plain scenario over a list with exactly one shard
\* that cannot be opened, an ended iteration has, with a handler that swallows
\* the fault, yielded exactly the samples of the other shards and ended
\* normally, and, with the handler that re-raises, yielded the samples of the
\* shards before the faulty one and then raised.
C7_Handler ==
    \A p \in PassIds :
      (/\ status = "ready"
       /\ Plain(args)
       /\ Cardinality({i \in 1..Len(args.shards.val) : ~Openable(args.shards.val[i])}) = 1
       /\ Finished(p))
      => LET l == args.shards.val
             ids == [i \in 1..Len(out[p]) |-> IdOf(out[p][i])]
         IN  IF args.handler = "swallow"
             THEN iters[p].pc = "done" /\ ids = SampleIds(RemoveAt(l, FaultAt(l)))
             ELSE iters[p].pc = "raised" /\ ids = SampleIds(SubSeq(l, 1, FaultAt(l) - 1))

\* what the transform stage is to emit for the inputs xs: for each in order,
\* the one record, or the elements of the lazy sequence; it stops at the first
\* input whose result is neither
RECURSIVE Expand(_, _, _)
Expand(a, xs, acc) ==
    IF xs = << >> THEN [out |-> acc, aborted |-> FALSE]
    ELSE LET y == transform_sample(a, Head(xs)) IN
         IF y.t = "raise" THEN [out |-> acc, aborted |-> TRUE]
         ELSE IF y.v.type \in {"dict", "tuple"}
              THEN Expand(a, Tail(xs), Append(acc, y.v.val))
         ELSE IF y.v.type = "Iterator" THEN Expand(a, Tail(xs), acc \o y.v.val)
         ELSE [out |-> acc, aborted |-> TRUE]

C10_Construction ==
    (status # "new" /\ IsNone(args.cache_dir))
    => LET resolvable == \/ args.shards.type = "str"
                         \/ args.shards.type = "list" /\ Len(args.shards.val) > 0
       IN  /\ resolvable
              => /\ status = "ready"
                 /\ ~IsNone(shardlist)
                 /\ Len(Val(shardlist)) > 0
           /\ ~resolvable
              => /\ status = "error"
                 /\ error \in {Some("ValueError"), Some("AssertionError")}
           /\ status = "error" => \A p \in PassIds : iters[p].pc = "none"

\* C11 as claimed: with a cache directory configured and a non-empty list of
\* shards, construction leaves the object ready and holding a Cache Adapter,
\* so that it can be iterated.
C11_CacheSubstitution ==
    (/\ status # "new"
     /\ ~IsNone(args.cache_dir)
     /\ args.shards.type = "list" /\ Len(args.shards.val) > 0)
    => /\ status = "ready"
       /\ ~IsNone(cache)

\* C12 as claimed: an iterator asked for after close has been called yields
\* nothing and is never found iterating or at the normal end of a pass.
C12_CloseTerminal ==
    \A p \in PassIds :
       iters[p].after_close
       => out[p] = << >> /\ iters[p].pc \notin {"running", "done"}

\* C13, the state part: a call of check_cache_misses warned exactly when the
\* object has a cache whose accesses are more than 100 and whose misses are
\* more than 30% of them, and raised nothing; without a cache the statistics
\* read (0, 0).
C13_State ==
    /\ ~IsNone(checked) =>
         /\ Val(checked).warned <=>
               /\ ~IsNone(cache)
               /\ Val(cache).accesses > 100
               /\ 10 * Val(cache).misses > 3 * Val(cache).accesses
         /\ IsNone(Val(checked).exc)
    /\ IsNone(cache) => get_stats = <<0, 0>>
    /\ ~IsNone(cache) => get_stats = <<Val(cache).accesses, Val(cache).misses>>

\* C13, the step part: the call changes neither the counters nor anything
\* else of the object.
C13_Step ==
    UNCHANGED <<args, status, error, epoch, total_size, shardlist, cache,
                log_shards_stream, log_keys_stream, pipeline, iters, out>>

\* C13: check_cache_misses warns exactly when a cache is there, its accesses
\* exceed 100 and its miss rate exceeds 30%; it never raises and changes
\* nothing; without a cache it does nothing and the statistics read (0, 0).
C13_MissRateWarning == [](C13_State) /\ [][C13_Step]_vars

\* C13 witness: the check has run and warned at 101 accesses with 31 misses
C13_Witness ==
    /\ ~IsNone(checked) /\ Val(checked).warned
    /\ get_stats = <<101, 31>>

\* the members of a sequence
Members(s) == {s[i] : i \in 1..Len(s)}

\* C14: under a split function that keeps the descriptors with shard_num
\* congruent to the worker's index modulo W, stage 1 tags every shard with its
\* place in the list; the partitions of the W workers are pairwise disjoint
\* and together make up the tagged list; whatever the repeats and the shuffle,
\* this worker opens shards of its own partition only, and over a completed,
\* untruncated iteration it opens all of them.
C14_WorkerPartition ==
    (status = "ready" /\ ~IsNone(args.shard_split_fn))
    => LET fn == Val(args.shard_split_fn)
           all == iterate_shards(Val(shardlist))
           part(w) == split_shards(
                         [args EXCEPT !.shard_split_fn = Some([W |-> fn.W, w |-> w])], all)
       IN  /\ \A i \in 1..Len(all) :
                all[i].shard_num = i - 1 /\ all[i].url = Val(shardlist)[i]
           /\ \A w1, w2 \in 0..(fn.W - 1) :
                w1 # w2 => Members(part(w1)) \cap Members(part(w2)) = {}
           /\ UNION {Members(part(w)) : w \in 0..(fn.W - 1)} = Members(all)
           /\ \A p \in PassIds :
                Begun(iters[p])
                => /\ Members(iters[p].f.opens) \subseteq Members(part(fn.w))
                   /\ (iters[p].pc = "done" /\ IsNone(args.force_size))
                      => Members(iters[p].f.opens) = Members(part(fn.w))

\* C14 witness: worker 1 of 2 has finished two passes over the list [a, b]
\* and has opened b twice
C14_Witness ==
    \E p \in PassIds :
      /\ status = "ready"
      /\ args.shard_split_fn = Some([W |-> 2, w |-> 1])
      /\ args.repeats = 2
      /\ args.shards.val = <<"a", "b">>
      /\ iters[p].pc = "done"
      /\ iters[p].f.opens = <<[url |-> "b", shard_num |-> 1], [url |-> "b", shard_num |-> 1]>>

\* the first stage of a pipeline that returns None
FirstNull(stages) == CHOOSE i \in 1..Len(stages) :
                        stages[i] = "null" /\ \A j \in 1..(i - 1) : stages[j] = "ok"

\* C15 as claimed: with assert statements enabled, every run of a pipeline in
\* which some stage returns None raises the assembly error, whose message names
\* the first such stage, and yields nothing.
C15_AssemblyError ==
    (asm.debug /\ \E i \in 1..Len(asm.stages) : asm.stages[i] = "null")
    => \A k \in 1..Len(asm.runs) :
          /\ asm.runs[k].exc = Some("AssertionError")
          /\ asm.runs[k].named = Some(FirstNull(asm.stages))
          /\ asm.runs[k].yielded = 0

\* a key fix_dots leaves alone: it begins with "__" or with "."
Prefixed(k) == startswith(k, DunderPrefix) \/ startswith(k, Dot)

\* C16 as claimed: after fix_dots every key begins with "." or "__"; every key
\* that began so before is still there with its original value; every other
\* key k is gone and "."+k holds k's original value.
C16_FixDotsPost ==
    fd.n >= 1 =>
      /\ \A k \in KeySet(fd.once) : Prefixed(k)
      /\ \A k \in KeySet(fd.in) :
           IF Prefixed(k)
           THEN HasKey(fd.once, k) /\ GetItem(fd.once, k) = GetItem(fd.in, k)
           ELSE /\ ~HasKey(fd.once, k)
                /\ HasKey(fd.once, Dot \o k)
                /\ GetItem(fd.once, Dot \o k) = GetItem(fd.in, k)

\* C16, amended: as claimed, except that a key "."+j that was in the record
\* together with an unprefixed key j does not keep its value: it holds j's.
C16_FixDotsNormalised ==
    fd.n >= 1 =>
      /\ \A k \in KeySet(fd.once) : Prefixed(k)
      /\ KeySet(fd.once) = {IF Prefixed(k) THEN k ELSE Dot \o k : k \in KeySet(fd.in)}
      /\ \A k \in KeySet(fd.in) :
           IF Prefixed(k)
           THEN /\ HasKey(fd.once, k)
                /\ (\A j \in KeySet(fd.in) : Prefixed(j) \/ Dot \o j # k)
                   => GetItem(fd.once, k) = GetItem(fd.in, k)
           ELSE /\ ~HasKey(fd.once, k)
                /\ HasKey(fd.once, Dot \o k)
                /\ GetItem(fd.once, Dot \o k) = GetItem(fd.in, k)

\* C16 witness: fix_dots has been applied to a record holding "x" and ".x"
\* with different values
C16_Witness ==
    /\ fd.n >= 1
    /\ HasKey(fd.in, <<"x">>) /\ HasKey(fd.in, <<".", "x">>)
    /\ GetItem(fd.in, <<"x">>) # GetItem(fd.in, <<".", "x">>)
    /\ GetItem(fd.once, <<".", "x">>) = GetItem(fd.in, <<"x">>)

\* C17 as claimed: a call of close on a ready object, with or without a cache,
\* raised nothing; it ran the teardown of the stages that have one, the last
\* stage first, and cleared the cache, if there was one, after them.
C17_CloseOrder ==
    closed.called =>
      /\ IsNone(closed.exc)
      /\ \E n \in 0..Len(pipeline) :
            /\ n <= Len(closed.teardown)
            /\ SubSeq(closed.teardown, 1, n) = closing(pipeline)
            /\ \A i \in (n + 1)..Len(closed.teardown) :
                  closed.teardown[i] = "cache.clear"

\* the log streams the object holds
LogStreams == {log_shards_stream, log_keys_stream}

\* C18 as claimed: no log stream is open before the first pass uses it, and
\* once close has been called every log stream the object opened is closed.
C18_LogStreamLifetime ==
    /\ (status = "ready" /\ NBegun = 0) => \A s \in LogStreams : IsNone(s)
    /\ closed.called => \A s \in LogStreams : ~IsNone(s) => Val(s).closed

\* C19, the state part: the shard list of a ready object is the list it was
\* constructed with, in content, order and length.
C19_State ==
    status = "ready" => shardlist = Some(args.shards.val)

\* C19, the step part: no step on a ready object changes the shard list, and
\* total_size changes in a call of set_size only.
C19_Step ==
    status = "ready" =>
      /\ shardlist' = shardlist
      /\ total_size' # total_size => \E n \in Sizes : set_size(n)

\* C19: after construction neither a stage nor any sequence of full, partial
\* or repeated iterations, nor close, changes the object's shard list, and
\* total_size changes only through set_size.
C19_ShardListFrame == [](C19_State) /\ [][C19_Step]_vars

\* C19 witness: under a split function and repeats = 2, one iteration has
\* ended, another is partly consumed, and set_size has been called
C19_Witness ==
    \E p, q \in PassIds :
      /\ status = "ready"
      /\ args.repeats = 2 /\ ~IsNone(args.shard_split_fn)
      /\ args.shards.val = <<"b", "a">>
      /\ iters[p].pc = "done" /\ iters[q].pc = "running" /\ Len(out[q]) > 0
      /\ total_size = 3
      /\ shardlist = Some(<<"b", "a">>)

\* the __epoch__ stamps of the samples an iterator has yielded
Stamps(p) == {GetItem(Samples(p)[i], K__epoch__) : i \in 1..Len(Samples(p))}

\* C20 as claimed: whatever the interleaving of the pulls, every sample of a
\* pass carries the epoch number of that pass, which is the number of passes
\* begun before it, and no two passes share a stamp.
C20_OneEpochPerPass ==
    /\ \A p \in PassIds : Begun(iters[p]) => Stamps(p) \subseteq {iters[p].nth - 1}
    /\ \A p, q \in PassIds : p # q => Stamps(p) \cap Stamps(q) = {}

====
